---------------------------- MODULE Spec2Model ----------------------------
(***************************************************************************)
(* A model of snowflake_mcp_server.py: the startup configuration           *)
(* (SnowflakeConfig), the query executor (execute_snowflake_query) and the *)
(* MCP tool endpoint (execute_snowflake_sql_query) running as coroutines   *)
(* of one asyncio event loop.                                              *)
(*                                                                         *)
(* Python values.  A str is a sequence of one-character strings, so that   *)
(* strip(), upper(), startswith() and int() are computed character by      *)
(* character.  None is the one-element sequence <<"<None>">>, which no str *)
(* equals.  An optional int (cursor.rowcount) is the set {} or {n}.        *)
(***************************************************************************)
EXTENDS Integers, Sequences, FiniteSets, TLC

VARIABLES
    env,        \* os.environ after load_dotenv(): setting name -> str or None
    files,      \* the file system: path -> what the file holds ("absent" if none)
    phase,      \* "start", "loaded", "serving", "exited"
    exit_code,  \* the argument of sys.exit, {} while the process runs
    config,     \* the module-level config object (NoConfig until it is built)
    loop,       \* the task the event loop's one thread is running, 0 when it is free
    task,       \* per tool invocation: its position, arguments and locals
    contacted,  \* history: snowflake.connector.connect has been called
    log         \* what startup wrote to stderr: the entries' kinds, in order

vars == <<env, files, phase, exit_code, config, loop, task, contacted, log>>

-----------------------------------------------------------------------------
(* Bounds of the model.                                                    *)

NumTasks == 2        \* overlapping tool invocations
MaxResultRows == 3   \* rows a result set may hold

Tasks == 1..NumTasks

-----------------------------------------------------------------------------
(* Python str, None, truthiness.                                           *)

None == <<"<None>">>

Truthy(v) == v # None /\ Len(v) > 0

Whitespace == {" ", "\t", "\n"}

RECURSIVE lstrip(_)
lstrip(s) == IF s # <<>> /\ Head(s) \in Whitespace THEN lstrip(Tail(s)) ELSE s

RECURSIVE rstrip(_)
rstrip(s) ==
    IF s # <<>> /\ s[Len(s)] \in Whitespace
    THEN rstrip(SubSeq(s, 1, Len(s) - 1))
    ELSE s

\* str.strip()
strip(s) == rstrip(lstrip(s))

Lower == <<"a","b","c","d","e","f","g","h","i","j","k","l","m",
           "n","o","p","q","r","s","t","u","v","w","x","y","z">>
Upper == <<"A","B","C","D","E","F","G","H","I","J","K","L","M",
           "N","O","P","Q","R","S","T","U","V","W","X","Y","Z">>

upper_char(c) ==
    IF \E i \in 1..Len(Lower) : Lower[i] = c
    THEN Upper[CHOOSE i \in 1..Len(Lower) : Lower[i] = c]
    ELSE c

\* str.upper()
upper(s) == [i \in 1..Len(s) |-> upper_char(s[i])]

\* str.startswith(prefix)
startswith(s, prefix) ==
    Len(prefix) <= Len(s) /\ SubSeq(s, 1, Len(prefix)) = prefix

RECURSIVE Text(_)
\* the characters of a str joined into one printable value
Text(s) == IF s = <<>> THEN "" ELSE Head(s) \o Text(Tail(s))

Digits == <<"0","1","2","3","4","5","6","7","8","9">>

IsDigit(c) == \E i \in 1..10 : Digits[i] = c

DigitValue(c) == (CHOOSE i \in 1..10 : Digits[i] = c) - 1

RECURSIVE DigitsValue(_)
DigitsValue(s) ==
    IF s = <<>> THEN 0
    ELSE DigitsValue(SubSeq(s, 1, Len(s) - 1)) * 10 + DigitValue(s[Len(s)])

\* int(s) for a str of digits, signs, blanks and letters: surrounding
\* whitespace is dropped, one leading sign is accepted, at least one digit is
\* required; anything else raises ValueError.
int(s) ==
    LET t == strip(s)
        signed == t # <<>> /\ Head(t) \in {"+", "-"}
        body == IF signed THEN Tail(t) ELSE t
    IN  IF body # <<>> /\ \A i \in 1..Len(body) : IsDigit(body[i])
        THEN [ok |-> TRUE,
              value |-> IF signed /\ Head(t) = "-"
                        THEN 0 - DigitsValue(body) ELSE DigitsValue(body)]
        ELSE [ok |-> FALSE, error |-> "ValueError"]

-----------------------------------------------------------------------------
(* The process environment and the file system.                            *)

KeyPath == <<"k">>

AccountSettings == {None, <<>>, <<"a">>}
UsernameSettings == {None, <<>>, <<"u">>}
PasswordSettings == {None, <<>>, <<"p","w">>}
KeyPathSettings == {None, KeyPath}
PassphraseSettings == {None, <<"p","p">>}
AuthenticatorSettings == {None, <<"s","s","o">>}
DatabaseSettings == {None}
MaxRowsSettings == {None, <<"x">>, <<"-","1">>, <<"0">>, <<" ","2">>}

\* what a file holds: nothing readable as a key, a PEM key in the clear, or a
\* PEM key encrypted under the passphrase <<"p","p">>
FileKinds == {"absent", "garbage", "pem", "pem_encrypted"}

Environments ==
    { [SNOWFLAKE_ACCOUNT |-> a, SNOWFLAKE_USERNAME |-> u,
       SNOWFLAKE_PASSWORD |-> p, SNOWFLAKE_PRIVATE_KEY_PATH |-> k,
       SNOWFLAKE_PRIVATE_KEY_PASSPHRASE |-> pp, SNOWFLAKE_AUTHENTICATOR |-> au,
       SNOWFLAKE_WAREHOUSE |-> None, SNOWFLAKE_DATABASE |-> db,
       SNOWFLAKE_SCHEMA |-> None, SNOWFLAKE_ROLE |-> None,
       SNOWFLAKE_MAX_ROWS |-> m] :
        a \in AccountSettings, u \in UsernameSettings, p \in PasswordSettings,
        k \in KeyPathSettings, pp \in PassphraseSettings,
        au \in AuthenticatorSettings, db \in DatabaseSettings,
        m \in MaxRowsSettings }

\* os.getenv(key) and os.getenv(key, default)
getenv(e, key) == e[key]

getenv_default(e, key, default) == IF e[key] = None THEN default ELSE e[key]

\* Path(p).exists()
exists(fs, p) == p \in DOMAIN fs /\ fs[p] # "absent"

-----------------------------------------------------------------------------
(* SnowflakeConfig.                                                        *)

NoConfig == [unset |-> TRUE]

\* a raised exception: its class and what its message carries (the text, the
\* file path it names or None, the underlying cause it quotes or ""); fault
\* tells an exception the environment raised (the database, the network, a
\* library) from one the program's own values decide
Raise(cls, text, path, cause) ==
    [cls |-> cls, text |-> text, path |-> path, cause |-> cause, fault |-> FALSE]

\* _get_required_env: the value, or ValueError when it is unset or empty
_get_required_env(e, key) ==
    IF ~Truthy(getenv(e, key))
    THEN [ok |-> FALSE,
          exc |-> Raise("ValueError", "Required environment variable " \o key \o " is not set",
                       None, "")]
    ELSE [ok |-> TRUE, value |-> getenv(e, key)]

\* _validate_config without the check that the key file exists
_validate_config_NoFileCheck(cfg, fs) ==
    IF ~(Truthy(cfg.password) \/ Truthy(cfg.private_key_path)
            \/ cfg.authenticator # <<"s","n","o","w","f","l","a","k","e">>)
    THEN [ok |-> FALSE,
          exc |-> Raise("ValueError", "At least one authentication method must be configured",
                        None, "")]
    ELSE [ok |-> TRUE]

\* _validate_config: the exception it raises, or "ok"
_validate_config(cfg, fs) ==
    LET has_password == Truthy(cfg.password)
        has_private_key == Truthy(cfg.private_key_path)
        has_sso == cfg.authenticator # <<"s","n","o","w","f","l","a","k","e">>
    IN  IF ~(has_password \/ has_private_key \/ has_sso)
        THEN [ok |-> FALSE,
              exc |-> Raise("ValueError", "At least one authentication method must be configured",
                           None, "")]
        ELSE IF has_private_key /\ ~exists(fs, cfg.private_key_path)
        THEN [ok |-> FALSE,
              exc |-> Raise("ValueError", "Private key file not found: " \o Text(cfg.private_key_path),
                           cfg.private_key_path, "")]
        ELSE [ok |-> TRUE]

\* SnowflakeConfig.__init__: the object built, or the first exception raised
SnowflakeConfig(e, fs) ==
    LET account == _get_required_env(e, "SNOWFLAKE_ACCOUNT")
        username == _get_required_env(e, "SNOWFLAKE_USERNAME")
        max_rows == int(getenv_default(e, "SNOWFLAKE_MAX_ROWS", <<"1","0","0","0">>))
        cfg == [account_identifier |-> account.value,
                username |-> username.value,
                password |-> getenv(e, "SNOWFLAKE_PASSWORD"),
                private_key_path |-> getenv(e, "SNOWFLAKE_PRIVATE_KEY_PATH"),
                private_key_passphrase |-> getenv(e, "SNOWFLAKE_PRIVATE_KEY_PASSPHRASE"),
                authenticator |-> getenv_default(e, "SNOWFLAKE_AUTHENTICATOR",
                                                 <<"s","n","o","w","f","l","a","k","e">>),
                warehouse |-> getenv(e, "SNOWFLAKE_WAREHOUSE"),
                database |-> getenv(e, "SNOWFLAKE_DATABASE"),
                schema |-> getenv(e, "SNOWFLAKE_SCHEMA"),
                role |-> getenv(e, "SNOWFLAKE_ROLE"),
                max_rows |-> max_rows.value]
    IN  IF ~account.ok THEN account
        ELSE IF ~username.ok THEN username
        ELSE IF ~max_rows.ok
        THEN [ok |-> FALSE, exc |-> Raise("ValueError", "invalid literal for int()", None, "")]
        ELSE IF ~_validate_config(cfg, fs).ok THEN _validate_config(cfg, fs)
        ELSE [ok |-> TRUE, value |-> cfg]

PrivateKey == <<"<private key>">>

\* load_pem_private_key(key_data, password=passphrase): what decoding the
\* file's bytes gives
load_pem_private_key(kind, passphrase) ==
    CASE kind = "pem" /\ passphrase = None -> [ok |-> TRUE, value |-> PrivateKey]
      [] kind = "pem" /\ passphrase # None ->
            [ok |-> FALSE, cause |-> "TypeError: password given but key is not encrypted"]
      [] kind = "pem_encrypted" /\ passphrase = None ->
            [ok |-> FALSE, cause |-> "TypeError: password not given but key is encrypted"]
      [] kind = "pem_encrypted" /\ passphrase = <<"p","p">> ->
            [ok |-> TRUE, value |-> PrivateKey]
      [] OTHER -> [ok |-> FALSE, cause |-> "ValueError: could not deserialize key data"]

\* _load_private_key: every failure to read or decode becomes a ValueError
\* carrying the path and the cause
_load_private_key(cfg, fs) ==
    LET passphrase == IF Truthy(cfg.private_key_passphrase)
                      THEN cfg.private_key_passphrase ELSE None
        decoded == load_pem_private_key(fs[cfg.private_key_path], passphrase)
    IN  IF ~exists(fs, cfg.private_key_path)
        THEN [ok |-> FALSE,
              exc |-> Raise("ValueError", "Failed to load private key from "
                                 \o Text(cfg.private_key_path) \o ": FileNotFoundError",
                           cfg.private_key_path, "FileNotFoundError")]
        ELSE IF ~decoded.ok
        THEN [ok |-> FALSE,
              exc |-> Raise("ValueError", "Failed to load private key from "
                                 \o Text(cfg.private_key_path) \o ": " \o decoded.cause,
                           cfg.private_key_path, decoded.cause)]
        ELSE decoded

\* the keys with `if self.private_key_path` in place of `elif`
ConnectionParamKeys_BothCredentials(cfg) ==
    {"account", "user", "authenticator"}
        \cup (IF Truthy(cfg.warehouse) THEN {"warehouse"} ELSE {})
        \cup (IF Truthy(cfg.database) THEN {"database"} ELSE {})
        \cup (IF Truthy(cfg.schema) THEN {"schema"} ELSE {})
        \cup (IF Truthy(cfg.role) THEN {"role"} ELSE {})
        \cup (IF Truthy(cfg.password) THEN {"password"} ELSE {})
        \cup (IF Truthy(cfg.private_key_path) THEN {"private_key"} ELSE {})

\* the keys of the mapping get_connection_params builds
ConnectionParamKeys(cfg) ==
    {"account", "user", "authenticator"}
        \cup (IF Truthy(cfg.warehouse) THEN {"warehouse"} ELSE {})
        \cup (IF Truthy(cfg.database) THEN {"database"} ELSE {})
        \cup (IF Truthy(cfg.schema) THEN {"schema"} ELSE {})
        \cup (IF Truthy(cfg.role) THEN {"role"} ELSE {})
        \cup (IF Truthy(cfg.password) THEN {"password"}
              ELSE IF Truthy(cfg.private_key_path) THEN {"private_key"} ELSE {})

\* get_connection_params: the mapping, or the exception _load_private_key raises
get_connection_params(cfg, fs) ==
    LET key == IF "private_key" \in ConnectionParamKeys(cfg)
               THEN _load_private_key(cfg, fs) ELSE [ok |-> TRUE, value |-> None]
    IN  IF ~key.ok THEN key
        ELSE [ok |-> TRUE,
              value |-> [k \in ConnectionParamKeys(cfg) |->
                           CASE k = "account" -> cfg.account_identifier
                             [] k = "user" -> cfg.username
                             [] k = "authenticator" -> cfg.authenticator
                             [] k = "warehouse" -> cfg.warehouse
                             [] k = "database" -> cfg.database
                             [] k = "schema" -> cfg.schema
                             [] k = "role" -> cfg.role
                             [] k = "password" -> cfg.password
                             [] k = "private_key" -> key.value]]

-----------------------------------------------------------------------------
(* The connector's exceptions and the executor's except clauses.           *)

\* the classes an exception of each class is an instance of
\* (snowflake.connector.errors: ProgrammingError and OperationalError derive
\* from DatabaseError, DatabaseError and InterfaceError from Error)
Bases(cls) ==
    CASE cls = "ProgrammingError" -> {"ProgrammingError", "DatabaseError", "Error", "Exception"}
      [] cls = "OperationalError" -> {"OperationalError", "DatabaseError", "Error", "Exception"}
      [] cls = "DatabaseError" -> {"DatabaseError", "Error", "Exception"}
      [] cls = "InterfaceError" -> {"InterfaceError", "Error", "Exception"}
      [] OTHER -> {cls, "Exception"}

isinstance(exc, cls) == cls \in Bases(exc.cls)

\* the except clauses with the DatabaseError clause written first
ExceptClauses_DatabaseErrorFirst ==
    << [cls |-> "DatabaseError", error_type |-> "DATABASE_ERROR", label |-> "Database Error"],
       [cls |-> "ProgrammingError", error_type |-> "SQL_ERROR", label |-> "SQL Error"],
       [cls |-> "Exception", error_type |-> "SYSTEM_ERROR", label |-> "Unexpected error"] >>

\* the except clauses of execute_snowflake_query, in their order
ExceptClauses ==
    << [cls |-> "ProgrammingError", error_type |-> "SQL_ERROR", label |-> "SQL Error"],
       [cls |-> "DatabaseError", error_type |-> "DATABASE_ERROR", label |-> "Database Error"],
       [cls |-> "Exception", error_type |-> "SYSTEM_ERROR", label |-> "Unexpected error"] >>

\* some except clause matches the exception
Caught(exc) == \E i \in 1..Len(ExceptClauses) : isinstance(exc, ExceptClauses[i].cls)

\* the first except clause that matches the exception
Handler(exc) ==
    ExceptClauses[CHOOSE i \in 1..Len(ExceptClauses) :
                    /\ isinstance(exc, ExceptClauses[i].cls)
                    /\ \A j \in 1..(i - 1) : ~isinstance(exc, ExceptClauses[j].cls)]

\* what a driver call may raise
Faults == {"ProgrammingError", "OperationalError", "InterfaceError"}

NoOutcome == [kind |-> "none"]

NoException == [step |-> "none"]

\* the dictionary an except clause returns
Failure(exc, sql_query) ==
    [success |-> FALSE,
     error |-> [label |-> Handler(exc).label, exc |-> exc],
     sql_query |-> sql_query,
     error_type |-> Handler(exc).error_type]

-----------------------------------------------------------------------------
(* Tool invocations.                                                       *)

\* the calls a client sends: the query text and the database argument
\* (schema and warehouse are left out of the call)
Calls ==
    { [query |-> <<>>, database |-> None],
      [query |-> <<" ">>, database |-> <<"O","V">>],
      [query |-> <<"\t", "\n">>, database |-> None],
      [query |-> <<"s","e","l">>, database |-> None],
      [query |-> <<" ","d","r","o","p"," ","t","\n">>, database |-> <<"O","V">>] }

dangerous_operations ==
    << <<"D","R","O","P">>, <<"D","E","L","E","T","E">>,
       <<"T","R","U","N","C","A","T","E">>, <<"A","L","T","E","R">>,
       <<"C","R","E","A","T","E"," ","U","S","E","R">>,
       <<"G","R","A","N","T">>, <<"R","E","V","O","K","E">> >>

\* the for loop over dangerous_operations: the alerts it logs (one, for the
\* first operation the text starts with, then break)
SecurityAlerts(query) ==
    LET query_upper == upper(strip(query))
        hits == {i \in 1..Len(dangerous_operations) :
                    startswith(query_upper, dangerous_operations[i])}
    IN  IF hits = {} THEN {}
        ELSE {"SECURITY ALERT: " \o
              Text(dangerous_operations[CHOOSE i \in hits : \A j \in hits : i <= j])}

\* the check without the strip: `not query`
IsEmptyQuery_NoStrip(query) == ~Truthy(query)

\* `not query or not query.strip()`
IsEmptyQuery(query) == ~Truthy(query) \/ ~Truthy(strip(query))

IdleTask ==
    [pc |-> "idle", query |-> None, database |-> None, sql_query |-> None,
     calls |-> 0, connects |-> 0, conn_params |-> <<>>,
     conn |-> "none", cursor |-> "none",
     executed |-> FALSE, description |-> None, rows |-> 0, rowcount |-> {},
     fetched |-> NoOutcome, raised |-> NoException, swallowed |-> {},
     outcome |-> NoOutcome,
     escaped |-> FALSE, logs |-> {}, output |-> <<>>]

Init ==
    /\ env \in Environments
    /\ files \in [{KeyPath} -> FileKinds]
    \* with no key path set there is no key file and no passphrase for it
    /\ env.SNOWFLAKE_PRIVATE_KEY_PATH = None =>
          files[KeyPath] = "absent" /\ env.SNOWFLAKE_PRIVATE_KEY_PASSPHRASE = None
    /\ phase = "start"
    /\ exit_code = {}
    /\ config = NoConfig
    /\ loop = 0
    /\ task = [t \in Tasks |-> IdleTask]
    /\ contacted = FALSE
    /\ log = <<>>

-----------------------------------------------------------------------------
(* Startup.                                                                *)

\* module level, lines 131-137: build the configuration or exit with 1
InitializeConfiguration ==
    /\ phase = "start"
    /\ LET built == SnowflakeConfig(env, files)
       IN  IF built.ok
           THEN /\ config' = built.value
                /\ phase' = "loaded"
                /\ log' = Append(log, [kind |-> "info", text |-> "configuration loaded"])
                /\ UNCHANGED exit_code
           ELSE /\ phase' = "exited"
                /\ exit_code' = {1}
                /\ log' = Append(log, [kind |-> "Configuration error", exc |-> built.exc])
                /\ UNCHANGED config
    /\ UNCHANGED <<env, files, loop, task, contacted>>

\* __main__: mcp.run() starts the event loop and the server accepts calls
RunServer ==
    /\ phase = "loaded"
    /\ phase' = "serving"
    /\ UNCHANGED <<env, files, exit_code, config, loop, task, contacted, log>>

\* __main__: KeyboardInterrupt while the loop is idle ends the process with 0
StopServer ==
    /\ phase = "serving"
    /\ loop = 0
    /\ \A t \in Tasks : task[t].pc = "idle"
    /\ phase' = "exited"
    /\ exit_code' = {0}
    /\ UNCHANGED <<env, files, config, loop, task, contacted, log>>

-----------------------------------------------------------------------------
(* execute_snowflake_sql_query and execute_snowflake_query, step by step.  *)
(* The coroutine holds the event loop's thread from its first step to its  *)
(* return: the body awaits nothing, the executor is called synchronously.  *)

NA == <<"N","/","A">>

\* str(e)
str(exc) == exc.text

\* what a driver call raises
DriverError(cls) == [Raise(cls, "driver: " \o cls, None, "") EXCEPT !.fault = TRUE]

\* dict.get(key, "N/A")
get(params, key) == IF key \in DOMAIN params THEN params[key] ELSE NA

\* `if value: conn_params[key] = value`
Override(params, key, value) ==
    IF Truthy(value)
    THEN [k \in DOMAIN params \cup {key} |-> IF k = key THEN value ELSE params[k]]
    ELSE params

\* an exception raised inside the try body at `step`: the matching except
\* clause logs it and returns a Failure; with no matching clause it propagates
Except(r, exc, step) ==
    IF Caught(exc)
    THEN [r EXCEPT !.raised = [exc |-> exc, step |-> step],
                   !.outcome = Failure(exc, r.sql_query),
                   !.logs = @ \cup {Handler(exc).label},
                   !.pc = "finally"]
    ELSE [r EXCEPT !.raised = [exc |-> exc, step |-> step],
                   !.escaped = TRUE,
                   !.pc = "finally"]

\* the MCP runtime receives a tools/call request and schedules the coroutine
Arrive(t) ==
    /\ phase = "serving"
    /\ task[t].pc = "idle"
    /\ task' = [task EXCEPT ![t].pc = "pending"]
    /\ UNCHANGED <<env, files, phase, exit_code, config, loop, contacted, log>>

\* lines 322-338: the loop starts the coroutine; the empty-query check, the
\* security classification and the call of the executor
Start(t) ==
    /\ phase = "serving"
    /\ loop = 0
    /\ task[t].pc = "pending"
    /\ loop' = t
    /\ \E call \in Calls :
         LET query == call.query
             r == [task[t] EXCEPT !.query = query, !.database = call.database]
         IN  IF IsEmptyQuery(query)
             THEN task' = [task EXCEPT ![t] =
                      [r EXCEPT !.output = <<"Error: Query cannot be empty">>,
                                !.pc = "returned"]]
             ELSE task' = [task EXCEPT ![t] =
                      [r EXCEPT !.logs = SecurityAlerts(query) \cup {"Executing query"},
                                !.calls = @ + 1,
                                !.sql_query = strip(query),
                                !.pc = "get_params"]]
    /\ UNCHANGED <<env, files, phase, exit_code, config, contacted, log>>

\* lines 169-179: the connection parameters, with the call's overrides
\* (schema and warehouse are passed as None)
GetParams(t) ==
    /\ task[t].pc = "get_params"
    /\ LET r == task[t]
           params == get_connection_params(config, files)
       IN  task' = [task EXCEPT ![t] =
              IF params.ok
              THEN [r EXCEPT !.conn_params =
                                Override(Override(Override(params.value,
                                    "database", r.database), "schema", None),
                                    "warehouse", None),
                             !.pc = "connect"]
              ELSE Except(r, params.exc, "get_connection_params")]
    /\ UNCHANGED <<env, files, phase, exit_code, config, loop, contacted, log>>

\* line 183: snowflake.connector.connect(**conn_params)
Connect(t) ==
    /\ task[t].pc = "connect"
    /\ contacted' = TRUE
    /\ \E reply \in {"ok"} \cup Faults :
         LET r == [task[t] EXCEPT !.connects = @ + 1]
         IN  task' = [task EXCEPT ![t] =
                IF reply = "ok"
                THEN [r EXCEPT !.conn = "open", !.pc = "cursor"]
                ELSE Except(r, DriverError(reply), "connect")]
    /\ UNCHANGED <<env, files, phase, exit_code, config, loop, log>>

\* line 186: conn.cursor()
CreateCursor(t) ==
    /\ task[t].pc = "cursor"
    /\ \E reply \in {"ok"} \cup Faults :
         task' = [task EXCEPT ![t] =
            IF reply = "ok"
            THEN [@ EXCEPT !.cursor = "open", !.pc = "execute"]
            ELSE Except(@, DriverError(reply), "cursor")]
    /\ UNCHANGED <<env, files, phase, exit_code, config, loop, contacted, log>>

\* the column names of a described result set
Columns == <<"A", "B">>

\* what the database answers to a statement: a described result set of some
\* rows, or no result set and a rowcount the cursor may not expose
Answers ==
    { [description |-> Columns, rows |-> n, rowcount |-> {n}] : n \in 0..MaxResultRows }
    \cup { [description |-> None, rows |-> 0, rowcount |-> rc] :
             rc \in {{}, {-1}, {0}, {MaxResultRows}} }

\* line 187: cursor.execute(sql_query), then the branch of line 190
Execute(t) ==
    /\ task[t].pc = "execute"
    /\ \/ \E a \in Answers :
            task' = [task EXCEPT ![t] =
               [@ EXCEPT !.executed = TRUE,
                         !.description = a.description, !.rows = a.rows,
                         !.rowcount = a.rowcount,
                         !.pc = IF Truthy(a.description) THEN "fetch" ELSE "no_result"]]
       \/ \E cls \in Faults :
            task' = [task EXCEPT ![t] = Except(@, DriverError(cls), "execute")]
    /\ UNCHANGED <<env, files, phase, exit_code, config, loop, contacted, log>>

Min(a, b) == IF a <= b THEN a ELSE b

\* cursor.fetchmany(size) on a result set of `rows` unread rows: the number
\* of rows returned; the connector raises ProgrammingError for a negative size
fetchmany(rows, size) ==
    IF size < 0
    THEN [ok |-> FALSE,
          exc |-> Raise("ProgrammingError", "The number of rows is not zero or positive number", None, "")]
    ELSE [ok |-> TRUE, value |-> Min(rows, size)]

\* cursor.fetchone() on `rows` unread rows: a row, or None
fetchone(rows) == IF rows > 0 THEN <<"row">> ELSE None

\* lines 190-205: the capped fetch, the truncation probe and the DataFrame
FetchRows(t) ==
    /\ task[t].pc = "fetch"
    /\ \E reply \in {"ok", "DataFrame"} \cup Faults :
         LET r == task[t]
             data == fetchmany(r.rows, config.max_rows)
             row_count == data.value
             remaining_rows == fetchone(r.rows - row_count)
             truncated == remaining_rows # None
             total_rows == IF truncated THEN ToString(row_count) \o "+"
                           ELSE ToString(row_count)
         IN  task' = [task EXCEPT ![t] =
                IF reply \in Faults THEN Except(r, DriverError(reply), "fetch")
                ELSE IF ~data.ok THEN Except(r, data.exc, "fetch")
                ELSE IF reply = "DataFrame"
                THEN Except(r, [Raise("ValueError", "DataFrame", None, "") EXCEPT !.fault = TRUE],
                            "build")
                ELSE [r EXCEPT !.fetched = [row_count |-> row_count,
                                            total_rows |-> total_rows,
                                            column_count |-> Len(r.description),
                                            truncated |-> truncated],
                               !.pc = "context"]]
    /\ UNCHANGED <<env, files, phase, exit_code, config, loop, contacted, log>>

\* `value or "N/A"`
OrNA(v) == IF Truthy(v) THEN v ELSE NA

\* what the context query gives: an exception, no row, or a row
ContextReplies == {<<"raise">>, None, <<<<"C","D">>, None, <<"C","W">>>>}

\* lines 207-235: the best-effort context query and the Success dictionary
QueryContext(t) ==
    /\ task[t].pc = "context"
    /\ \E reply \in ContextReplies :
         LET r == task[t]
             fallback == [database |-> get(r.conn_params, "database"),
                          schema |-> get(r.conn_params, "schema"),
                          warehouse |-> get(r.conn_params, "warehouse")]
             context == IF reply = <<"raise">> \/ reply = None THEN fallback
                        ELSE [database |-> OrNA(reply[1]),
                              schema |-> OrNA(reply[2]),
                              warehouse |-> OrNA(reply[3])]
         IN  task' = [task EXCEPT ![t] =
                [r EXCEPT !.swallowed = IF reply = <<"raise">> THEN @ \cup {"context"} ELSE @,
                          !.logs = IF reply = <<"raise">>
                                   THEN @ \cup {"Could not retrieve current context"} ELSE @,
                          !.outcome = [success |-> TRUE,
                                       sql_query |-> r.sql_query,
                                       row_count |-> r.fetched.row_count,
                                       total_rows |-> r.fetched.total_rows,
                                       column_count |-> r.fetched.column_count,
                                       context |-> context,
                                       truncated |-> r.fetched.truncated,
                                       affected_rows |-> {}],
                          !.pc = "finally"]]
    /\ UNCHANGED <<env, files, phase, exit_code, config, loop, contacted, log>>

\* `cursor.rowcount >= 0`: comparing None with an int raises TypeError
rowcount_ge_0(rowcount) ==
    IF rowcount = {}
    THEN [ok |-> FALSE,
          exc |-> Raise("TypeError", "'>=' not supported between 'NoneType' and 'int'", None, "")]
    ELSE [ok |-> TRUE, value |-> \E n \in rowcount : n >= 0]

\* lines 236-255: a statement with no result set
NoResultSet(t) ==
    /\ task[t].pc = "no_result"
    /\ LET r == task[t]
           test == rowcount_ge_0(r.rowcount)
           affected_rows == IF test.value THEN CHOOSE n \in r.rowcount : TRUE ELSE 0
       IN  task' = [task EXCEPT ![t] =
              IF ~test.ok THEN Except(r, test.exc, "rowcount")
              ELSE [r EXCEPT !.logs = @ \cup {"Query executed successfully (no result set)"},
                             !.outcome = [success |-> TRUE,
                                          sql_query |-> r.sql_query,
                                          row_count |-> 1,
                                          total_rows |-> "1",
                                          column_count |-> 1,
                                          context |-> [database |-> get(r.conn_params, "database"),
                                                       schema |-> get(r.conn_params, "schema"),
                                                       warehouse |-> get(r.conn_params, "warehouse")],
                                          truncated |-> FALSE,
                                          affected_rows |-> {affected_rows}],
                             !.pc = "finally"]]
    /\ UNCHANGED <<env, files, phase, exit_code, config, loop, contacted, log>>

\* lines 287-296: one try around both closes; the first close that raises
\* ends the block in the except clause, which logs and swallows
Cleanup(r, cursor_close_raises, conn_close_raises) ==
    IF r.cursor = "open" /\ cursor_close_raises
    THEN [r EXCEPT !.cursor = "close_failed",
                   !.swallowed = @ \cup {"cursor.close"},
                   !.logs = @ \cup {"Error closing connection"}]
    ELSE LET c == IF r.cursor = "open" THEN [r EXCEPT !.cursor = "closed"] ELSE r
         IN  IF c.conn = "open" /\ conn_close_raises
             THEN [c EXCEPT !.conn = "close_failed",
                            !.swallowed = @ \cup {"conn.close"},
                            !.logs = @ \cup {"Error closing connection"}]
             ELSE [c EXCEPT !.conn = IF c.conn = "open" THEN "closed" ELSE @,
                            !.logs = @ \cup {"Database connection closed"}]

\* the finally block of execute_snowflake_query, then its return (or the
\* propagation of an uncaught exception through the endpoint)
Finally(t) ==
    /\ task[t].pc = "finally"
    /\ \E cursor_close_raises \in BOOLEAN, conn_close_raises \in BOOLEAN :
         LET c == Cleanup(task[t], cursor_close_raises, conn_close_raises)
         IN  task' = [task EXCEPT ![t] =
                [c EXCEPT !.pc = IF c.escaped THEN "returned" ELSE "format"]]
    /\ UNCHANGED <<env, files, phase, exit_code, config, loop, contacted, log>>

\* lines 340-393: the text of a Success
FormatSuccess(result, max_rows, rendered) ==
    << "Query executed successfully",
       "",
       "SQL: " \o Text(result.sql_query),
       "",
       "Context: Database=" \o Text(result.context.database)
           \o ", Schema=" \o Text(result.context.schema)
           \o ", Warehouse=" \o Text(result.context.warehouse),
       "",
       IF result.affected_rows # {}
       THEN "Rows affected: " \o ToString(CHOOSE n \in result.affected_rows : TRUE)
       ELSE IF result.truncated
       THEN "Results: " \o result.total_rows \o " rows (showing first "
                \o ToString(result.row_count) \o "), "
                \o ToString(result.column_count) \o " columns"
       ELSE "Results: " \o ToString(result.row_count) \o " rows, "
                \o ToString(result.column_count) \o " columns",
       "",
       "Data:" >>
    \o (IF rendered THEN << "<result_df.to_string>" >>
        ELSE << "Error formatting results for display.",
                "Data shape: <shape>",
                "Raw data available but too complex to display." >>)
    \o (IF result.truncated
        THEN << "",
                "Results truncated. Showing first " \o ToString(max_rows) \o " rows only.",
                "Consider adding LIMIT clause or filtering your query for better performance." >>
        ELSE << >>)

\* lines 395-426: the text of a Failure
FormatFailure(result) ==
    << "Query failed (" \o result.error_type \o ")",
       "",
       "SQL: " \o Text(result.sql_query),
       "",
       "Error: " \o result.error.label \o ": " \o str(result.error.exc) >>
    \o (IF result.error_type = "SQL_ERROR"
        THEN << "", "Tips:", "- Check your SQL syntax", "- Verify table and column names",
                "- Ensure you have proper permissions" >>
        ELSE IF result.error_type = "DATABASE_ERROR"
        THEN << "", "Tips:", "- Check your connection settings",
                "- Verify database/schema exists", "- Ensure warehouse is running" >>
        ELSE << >>)

\* lines 340-426: the endpoint formats the executor's result and returns it
Format(t) ==
    /\ task[t].pc = "format"
    /\ \E rendered \in BOOLEAN :
         LET r == task[t]
         IN  task' = [task EXCEPT ![t] =
                IF r.outcome.success
                THEN [r EXCEPT !.output = FormatSuccess(r.outcome, config.max_rows, rendered),
                               !.logs = IF rendered THEN @
                                        ELSE @ \cup {"Error formatting results"},
                               !.pc = "returned"]
                ELSE [r EXCEPT !.output = FormatFailure(r.outcome),
                               !.logs = @ \cup {"Query failed"},
                               !.pc = "returned"]]
    /\ UNCHANGED <<env, files, phase, exit_code, config, loop, contacted, log>>

\* the runtime takes the coroutine's result, sends the response and the
\* loop's thread is free for the next coroutine
Deliver(t) ==
    /\ task[t].pc = "returned"
    /\ loop = t
    /\ loop' = 0
    /\ task' = [task EXCEPT ![t] = IdleTask]
    /\ UNCHANGED <<env, files, phase, exit_code, config, contacted, log>>

\* a step of the coroutine of invocation t
Run(t) ==
    \/ Start(t)
    \/ GetParams(t)
    \/ Connect(t)
    \/ CreateCursor(t)
    \/ Execute(t)
    \/ FetchRows(t)
    \/ QueryContext(t)
    \/ NoResultSet(t)
    \/ Finally(t)
    \/ Format(t)

-----------------------------------------------------------------------------

Next ==
    \/ InitializeConfiguration
    \/ RunServer
    \/ StopServer
    \/ \E t \in Tasks : Arrive(t) \/ Run(t) \/ Deliver(t)

Spec == Init /\ [][Next]_vars

-----------------------------------------------------------------------------
(* Properties.                                                             *)

\* the executor has returned to the endpoint (or the endpoint to the runtime)
ExecutorReturned(r) == r.calls > 0 /\ r.pc \in {"format", "returned"}

\* the executor's result is decided: it is in its finally block or past it
Decided(r) == r.calls > 0 /\ r.pc \in {"finally", "format", "returned"}

IsSuccess(o) == o # NoOutcome /\ o.success

IsFailure(o) == o # NoOutcome /\ ~o.success

\* the text holds the line
HasLine(output, line) == \E i \in 1..Len(output) : output[i] = line

\* C1: when execute_snowflake_query has returned, on every exit path, no
\* cursor and no connection the call opened is left without its close having
\* been called, also when the close of the other resource raised; a close that
\* raised was logged and nothing was raised to the caller.
C1_ResourcesReleased ==
    \A t \in Tasks :
        ExecutorReturned(task[t]) =>
            /\ task[t].cursor # "open"
            /\ task[t].conn # "open"
            /\ ~task[t].escaped
            /\ task[t].swallowed \cap {"cursor.close", "conn.close"} # {}
                  => "Error closing connection" \in task[t].logs

\* C2: a tabular query of n rows that the database serves without a fault
\* gives, for the configured max_rows, a Success with row_count =
\* min(n, max_rows); truncated and total_rows = "<row_count>+" when
\* n > max_rows; not truncated and total_rows = "<n>" when n <= max_rows.
C2_RowCapReported ==
    \A t \in Tasks :
        LET r == task[t]
            n == r.rows
            o == r.outcome
        IN  /\ Decided(r)
            /\ r.executed
            /\ Truthy(r.description)
            /\ r.raised # NoException => ~r.raised.exc.fault
            => /\ IsSuccess(o)
               /\ o.row_count = Min(n, config.max_rows)
               /\ n > config.max_rows =>
                     o.truncated /\ o.total_rows = ToString(o.row_count) \o "+"
               /\ n <= config.max_rows =>
                     ~o.truncated /\ o.total_rows = ToString(n)

\* C3: while one invocation waits in connect, execute or fetch, another
\* pending invocation can take a step: the waiting one does not hold the
\* scheduler.
C3_WaitingDoesNotBlock ==
    \A t \in Tasks, u \in Tasks :
        /\ t # u
        /\ task[t].pc \in {"connect", "execute", "fetch"}
        /\ task[u].pc = "pending"
        => ENABLED Run(u)

\* C4 as stated: the mapping get_connection_params returns for a configuration
\* that passed validation holds exactly one of the keys password, private_key.
C4_ExactlyOneCredential ==
    \A t \in Tasks :
        task[t].pc = "connect" =>
            Cardinality(DOMAIN task[t].conn_params \cap {"password", "private_key"}) = 1

\* C4 amended: the mapping holds at most one of the two keys: password, the
\* setting unchanged, when a non-empty password is set; otherwise private_key,
\* the decoded key, when a key path is set; neither when the configuration
\* passed validation on its authenticator alone.
C4_AtMostOneCredential ==
    \A t \in Tasks :
        task[t].pc = "connect" =>
            LET p == task[t].conn_params
                password == env.SNOWFLAKE_PASSWORD
                path == env.SNOWFLAKE_PRIVATE_KEY_PATH
                has_password == password # None /\ password # <<>>
                has_path == path # None /\ path # <<>>
            IN  /\ has_password =>
                      /\ "password" \in DOMAIN p
                      /\ p["password"] = password
                      /\ "private_key" \notin DOMAIN p
                /\ ~has_password /\ has_path =>
                      /\ "private_key" \in DOMAIN p
                      /\ p["private_key"] = PrivateKey
                      /\ "password" \notin DOMAIN p
                /\ ~has_password /\ ~has_path =>
                      /\ DOMAIN p \cap {"password", "private_key"} = {}
                      /\ env.SNOWFLAKE_AUTHENTICATOR \notin {None, <<"s","n","o","w","f","l","a","k","e">>}
                      /\ p["authenticator"] = env.SNOWFLAKE_AUTHENTICATOR

\* C4 witness: a call built its parameters from a key-pair configuration
C4_Witness ==
    \E t \in Tasks :
        /\ task[t].pc = "connect"
        /\ "private_key" \in DOMAIN task[t].conn_params
        /\ env.SNOWFLAKE_PASSWORD = <<>>

\* the process was started with a mandatory setting missing or empty, with no
\* authentication method, or with a key path that names no file
BadStart ==
    \/ env.SNOWFLAKE_ACCOUNT \in {None, <<>>}
    \/ env.SNOWFLAKE_USERNAME \in {None, <<>>}
    \/ /\ env.SNOWFLAKE_PASSWORD \in {None, <<>>}
       /\ env.SNOWFLAKE_PRIVATE_KEY_PATH \in {None, <<>>}
       /\ env.SNOWFLAKE_AUTHENTICATOR \in {None, <<"s","n","o","w","f","l","a","k","e">>}
    \/ /\ env.SNOWFLAKE_PRIVATE_KEY_PATH \notin {None, <<>>}
       /\ files[env.SNOWFLAKE_PRIVATE_KEY_PATH] = "absent"

\* C5: a process started with a mandatory setting missing or empty, no
\* authentication method or a key path naming no file only ever exits with
\* code 1: it never holds a configuration, never serves, never runs a tool
\* call and never calls the connector's connect.
C5_BadStartNeverServes ==
    BadStart =>
        /\ phase \in {"start", "exited"}
        /\ phase = "exited" => exit_code = {1}
        /\ phase = "start" => ENABLED InitializeConfiguration
        /\ config = NoConfig
        /\ ~contacted
        /\ \A t \in Tasks : task[t].pc = "idle"

\* C5 witness: startup ended on a key path that names no file, all else set
C5_Witness ==
    /\ phase = "exited"
    /\ exit_code = {1}
    /\ env.SNOWFLAKE_ACCOUNT = <<"a">>
    /\ env.SNOWFLAKE_USERNAME = <<"u">>
    /\ env.SNOWFLAKE_PASSWORD = <<"p","w">>
    /\ env.SNOWFLAKE_PRIVATE_KEY_PATH = KeyPath
    /\ files[KeyPath] = "absent"

\* C6: a failure to read or decode the private key file carries the cause and
\* the path, is fatal (the process has exited with 1 and no tool call was
\* served) and no connection is attempted by another method.
C6_KeyLoadFailureIsFatal ==
    \A t \in Tasks :
        task[t].raised.step = "get_connection_params" =>
            /\ task[t].raised.exc.path = env.SNOWFLAKE_PRIVATE_KEY_PATH
            /\ task[t].raised.exc.cause # ""
            /\ task[t].connects = 0
            /\ phase = "exited"
            /\ exit_code = {1}

\* the error kind the first matching rule gives an exception of class cls
ExpectedKind(cls) ==
    IF cls = "ProgrammingError" THEN "SQL_ERROR"
    ELSE IF cls \in {"DatabaseError", "OperationalError"} THEN "DATABASE_ERROR"
    ELSE "SYSTEM_ERROR"

\* C7 as stated: every failure raised at any step of a call, the execute and
\* the fetch of the context query among them, is turned into a Failure
\* outcome of the kind the first matching rule gives, and the endpoint returns
\* text: nothing escapes it.
C7_EveryFailureIsFailure ==
    \A t \in Tasks :
        LET r == task[t]
        IN  /\ Decided(r) /\ (r.raised # NoException \/ "context" \in r.swallowed) =>
                  /\ IsFailure(r.outcome)
                  /\ r.raised # NoException =>
                        r.outcome.error_type = ExpectedKind(r.raised.exc.cls)
            /\ r.pc = "returned" => ~r.escaped /\ r.output # <<>>

\* C7 amended: every failure raised while building the connection parameters,
\* in connect, cursor creation, the execute or the fetch of the statement, or
\* while building the result is turned into a Failure outcome of the kind the
\* first matching rule gives (ProgrammingError: SQL_ERROR; else DatabaseError:
\* DATABASE_ERROR; else SYSTEM_ERROR); a failure of the best-effort context
\* query is logged and leaves the outcome a Success; the endpoint returns
\* text in every case and nothing escapes it.
C7_FailuresClassified ==
    \A t \in Tasks :
        LET r == task[t]
        IN  /\ Decided(r) /\ r.raised # NoException =>
                  /\ IsFailure(r.outcome)
                  /\ r.outcome.error_type = ExpectedKind(r.raised.exc.cls)
                  /\ r.outcome.error.exc = r.raised.exc
            /\ Decided(r) /\ "context" \in r.swallowed =>
                  /\ IsSuccess(r.outcome)
                  /\ "Could not retrieve current context" \in r.logs
            /\ r.pc \in {"finally", "format", "returned"} => ~r.escaped
            /\ r.pc = "returned" =>
                  /\ r.output # <<>>
                  /\ r.calls > 0 =>
                        r.output[1] = IF IsSuccess(r.outcome)
                                      THEN "Query executed successfully"
                                      ELSE "Query failed (" \o r.outcome.error_type \o ")"

\* C7 witness: a call whose execute raised ProgrammingError returned the
\* SQL_ERROR text
C7_Witness ==
    \E t \in Tasks :
        /\ task[t].pc = "returned"
        /\ task[t].raised.step = "execute"
        /\ task[t].raised.exc.cls = "ProgrammingError"
        /\ task[t].output[1] = "Query failed (SQL_ERROR)"

\* every character of the text is whitespace
Blank(query) == \A i \in 1..Len(query) : query[i] \in Whitespace

\* C8: a call that has returned invoked the executor exactly once if its
\* query is non-empty after trimming, a sensitive prefix or not (a match only
\* adds the advisory log entry), and for an empty or whitespace-only query it
\* returned "Error: Query cannot be empty" without invoking the executor or
\* connecting; no call invokes the executor twice.
C8_ExecutorOncePerQuery ==
    \A t \in Tasks :
        LET r == task[t]
        IN  /\ r.calls <= 1
            /\ r.pc \notin {"idle", "pending"} /\ ~Blank(r.query) =>
                  /\ r.calls = 1
                  /\ r.sql_query # <<>>
                  /\ Head(r.sql_query) \notin Whitespace
                  /\ r.sql_query[Len(r.sql_query)] \notin Whitespace
            /\ r.pc \notin {"idle", "pending"} /\ Blank(r.query) =>
                  /\ r.pc = "returned"
                  /\ r.output = <<"Error: Query cannot be empty">>
                  /\ r.calls = 0
                  /\ r.connects = 0
                  /\ r.conn = "none"
            /\ r.query = <<" ","d","r","o","p"," ","t","\n">> =>
                  "SECURITY ALERT: DROP" \in r.logs
            /\ r.query = <<"s","e","l">> =>
                  "SECURITY ALERT: DROP" \notin r.logs

\* C8 witness: a call with a DROP statement returned after one executor call
\* that connected
C8_Witness ==
    \E t \in Tasks :
        /\ task[t].pc = "returned"
        /\ task[t].query = <<" ","d","r","o","p"," ","t","\n">>
        /\ task[t].calls = 1
        /\ task[t].connects = 1
        /\ "SECURITY ALERT: DROP" \in task[t].logs

\* C9: after a successful startup max_rows is at least 1: 1000 when the
\* setting is absent, the parsed value when it is numeric.
C9_MaxRowsPositive ==
    phase \in {"loaded", "serving"} =>
        /\ config.max_rows >= 1
        /\ env.SNOWFLAKE_MAX_ROWS = None => config.max_rows = 1000

\* C10: a statement that executed without error and has no described result
\* set gives a Success of row_count 1, column_count 1, not truncated, with
\* affected_rows the connector's rowcount when it exposes a non-negative
\* value and 0 otherwise (negative, or none exposed), and the text shows
\* "Rows affected: <affected_rows>".
C10_NoResultSetSuccess ==
    \A t \in Tasks :
        LET r == task[t]
            affected == IF r.rowcount # {} /\ \A n \in r.rowcount : n >= 0
                        THEN r.rowcount ELSE {0}
        IN  /\ Decided(r) /\ r.executed /\ r.description = None =>
                  /\ IsSuccess(r.outcome)
                  /\ r.outcome.row_count = 1
                  /\ r.outcome.column_count = 1
                  /\ ~r.outcome.truncated
                  /\ r.outcome.affected_rows = affected
            /\ r.pc = "returned" /\ r.executed /\ r.description = None =>
                  \E n \in affected : HasLine(r.output, "Rows affected: " \o ToString(n))

=============================================================================
